---------------------------- MODULE Spec2Model ----------------------------
(***************************************************************************)
(* Mergington High School API (src/src/app.py): the session store, the     *)
(* credential directory, the activity catalog and the request handlers     *)
(* that read and change them.                                              *)
(*                                                                         *)
(* One action per HTTP handler.  A handler is an `async def` without any   *)
(* `await` on shared state, so one request is one atomic step.  Every      *)
(* action records the request it served and the response it produced.      *)
(* SpecConcurrent separates the dependency of a roster request from its    *)
(* handler body, SpecCapacity fills one roster.                            *)
(*                                                                         *)
(* Optional[str] values are sequences of length at most one: None is <<>>  *)
(* and the string s is <<s>>.  Session tokens are the draws of             *)
(* secrets.token_urlsafe(32): the n-th draw is the number n, so a token is *)
(* never drawn twice, and no client presents a token before it was issued  *)
(* (tokens are unguessable); a client may present a forged token, which is *)
(* never drawn.                                                            *)
(***************************************************************************)
EXTENDS Integers, Sequences, FiniteSets, TLC

(***************************************************************************)
(* Bounds of the model.                                                    *)
(***************************************************************************)
\* successful logins (draws of the token source) in one run
MaxLogins == 2
\* roster requests served concurrently in one run
MaxInFlight == 2

(***************************************************************************)
(* Inputs of the requests.                                                 *)
(***************************************************************************)
\* LoginRequest.username: any str, the empty string included
Usernames == {"", "mrs.garcia"}
\* LoginRequest.password
Passwords == {"pw-a", "pw-b"}
\* the email query parameter: a seeded participant and a new student
Emails == {"michael@mergington.edu", "new@mergington.edu"}
\* the activity_name path parameter: two seeded activities and an unknown one
ActivityNames == {"Chess Club", "Programming Class", "Robotics Club"}
\* a cookie value that token_urlsafe never returns
ForgedTokens == {0}

None == <<>>
Some(x) == <<x>>

\* the values the session_token cookie of a request can have, given the
\* number of tokens issued so far
Cookies(n) == {None} \cup {Some(t) : t \in ForgedTokens \cup (1..n)}

Credentials == [username : Usernames, password : Passwords]

Teacher(u, p) == [username |-> u, password |-> p]

\* the contents of teachers.json considered: any JSON list of
\* {username, password} objects loads (app.py:30-34); a directory of one
\* teacher, and one of two teachers the second of which has the empty
\* username
Directories ==
    { <<Teacher("mrs.garcia", "pw-a")>>,
      <<Teacher("mrs.garcia", "pw-a"), Teacher("", "pw-b")>> }

VARIABLES
    sessions,     \* app.py:27  token -> username
    teachers,     \* app.py:36  list of {username, password}
    activities,   \* app.py:56  name -> activity
    drawn,        \* number of tokens drawn from secrets.token_urlsafe so far
    request,      \* the request served last
    response,     \* the response to it
    loggedOut,    \* history: the issued tokens that /logout requests have carried
    before,       \* history: the rosters as they were when the last request arrived
    inflight      \* the roster requests being served concurrently, by slot

vars == <<sessions, teachers, activities, drawn, request, response, loggedOut, before,
          inflight>>

(***************************************************************************)
(* Python list operations used by the handlers.                            *)
(***************************************************************************)
\* `x in lst`
In(x, lst) == \E i \in 1..Len(lst) : lst[i] = x

\* lst.index(x): the first position holding x
IndexOf(x, lst) == CHOOSE i \in 1..Len(lst) : lst[i] = x /\ \A j \in 1..(i - 1) : lst[j] # x

\* a removal that cuts the list at the first occurrence of x
ListRemoveTruncate(lst, x) ==
    LET i == IndexOf(x, lst)
    IN  SubSeq(lst, 1, i - 1)

\* a removal that moves the last element into the place of x
ListRemoveSwap(lst, x) ==
    LET i == IndexOf(x, lst)
    IN  IF i = Len(lst) THEN SubSeq(lst, 1, Len(lst) - 1)
        ELSE [j \in 1..(Len(lst) - 1) |-> IF j = i THEN lst[Len(lst)] ELSE lst[j]]

\* lst.remove(x): delete the first occurrence of x
ListRemove(lst, x) ==
    LET i == IndexOf(x, lst)
    IN  SubSeq(lst, 1, i - 1) \o SubSeq(lst, i + 1, Len(lst))

\* an insertion at the front of the list
ListPrepend(lst, x) == <<x>> \o lst

\* lst.append(x)
ListAppend(lst, x) == Append(lst, x)

\* truth value of an Optional[str] in `if v` / `if not v`: None and "" are false
Truthy(v) == v # None /\ v[1] # ""

\* truth value of an optional session token: a token is a non-empty string
TruthyToken(v) == v # None

(***************************************************************************)
(* The seed catalog, app.py:56-111.                                        *)
(***************************************************************************)
Activity(d, s, m, p) ==
    [description |-> d, schedule |-> s, max_participants |-> m, participants |-> p]

SeedNames ==
    {"Chess Club", "Programming Class", "Gym Class", "Soccer Team", "Basketball Team",
     "Art Club", "Drama Club", "Math Club", "Debate Team"}

SeedActivities ==
    [n \in SeedNames |->
        CASE n = "Chess Club" ->
               Activity("Learn strategies and compete in chess tournaments",
                        "Fridays, 3:30 PM - 5:00 PM", 12,
                        <<"michael@mergington.edu", "daniel@mergington.edu">>)
          [] n = "Programming Class" ->
               Activity("Learn programming fundamentals and build software projects",
                        "Tuesdays and Thursdays, 3:30 PM - 4:30 PM", 20,
                        <<"emma@mergington.edu", "sophia@mergington.edu">>)
          [] n = "Gym Class" ->
               Activity("Physical education and sports activities",
                        "Mondays, Wednesdays, Fridays, 2:00 PM - 3:00 PM", 30,
                        <<"john@mergington.edu", "olivia@mergington.edu">>)
          [] n = "Soccer Team" ->
               Activity("Join the school soccer team and compete in matches",
                        "Tuesdays and Thursdays, 4:00 PM - 5:30 PM", 22,
                        <<"liam@mergington.edu", "noah@mergington.edu">>)
          [] n = "Basketball Team" ->
               Activity("Practice and play basketball with the school team",
                        "Wednesdays and Fridays, 3:30 PM - 5:00 PM", 15,
                        <<"ava@mergington.edu", "mia@mergington.edu">>)
          [] n = "Art Club" ->
               Activity("Explore your creativity through painting and drawing",
                        "Thursdays, 3:30 PM - 5:00 PM", 15,
                        <<"amelia@mergington.edu", "harper@mergington.edu">>)
          [] n = "Drama Club" ->
               Activity("Act, direct, and produce plays and performances",
                        "Mondays and Wednesdays, 4:00 PM - 5:30 PM", 20,
                        <<"ella@mergington.edu", "scarlett@mergington.edu">>)
          [] n = "Math Club" ->
               Activity("Solve challenging problems and participate in math competitions",
                        "Tuesdays, 3:30 PM - 4:30 PM", 10,
                        <<"james@mergington.edu", "benjamin@mergington.edu">>)
          [] n = "Debate Team" ->
               Activity("Develop public speaking and argumentation skills",
                        "Fridays, 4:00 PM - 5:30 PM", 12,
                        <<"charlotte@mergington.edu", "henry@mergington.edu">>)]

\* the participants list of every activity of a catalog
Rosters(catalog) == [n \in DOMAIN catalog |-> catalog[n].participants]

(***************************************************************************)
(* Requests and responses.                                                 *)
(***************************************************************************)
Request(op, tok, name, email, cred) ==
    [op |-> op, session_token |-> tok, activity_name |-> name, email |-> email,
     credentials |-> cred]

NoCredentials == [username |-> "", password |-> ""]

\* HTTPException(status_code, detail)
HTTPException(code, detail) ==
    [status_code |-> code, content |-> [detail |-> detail], set_cookie |-> None]

\* a 200 response with a JSON body and no cookie
OK(content) == [status_code |-> 200, content |-> content, set_cookie |-> None]

(***************************************************************************)
(* Authentication dependency, app.py:44-53.                                *)
(***************************************************************************)
get_current_user(session_token) ==
    IF TruthyToken(session_token) /\ session_token[1] \in DOMAIN sessions
    THEN Some(sessions[session_token[1]])
    ELSE None

\* require_auth raises 401 exactly when this is false; otherwise it returns
\* get_current_user(session_token)
require_auth(session_token) == Truthy(get_current_user(session_token))

(***************************************************************************)
(* Requests in flight.  The server runs every `async def` handler on one   *)
(* event loop: a request can be suspended while the framework reads it and *)
(* resolves its dependencies (require_auth), and the handler body, which   *)
(* holds no `await`, then runs to its return without suspension.  A slot   *)
(* holds one roster request from the resolution of its dependency to its   *)
(* response, and remembers which other requests were in flight when its    *)
(* body ran.                                                               *)
(***************************************************************************)
Slots == 1..MaxInFlight

IdleSlot ==
    [pc |-> "idle", op |-> "", user |-> None, activity_name |-> "",
     email |-> "", response |-> None, overlap |-> {}]

(***************************************************************************)
(* The initial state: nothing served yet.                                  *)
(***************************************************************************)
Init ==
    /\ sessions = <<>>
    /\ teachers \in Directories
    /\ activities = SeedActivities
    /\ drawn = 0
    /\ request = Request("startup", None, "", "", NoCredentials)
    /\ response = OK([message |-> "startup"])
    /\ loggedOut = {}
    /\ before = Rosters(SeedActivities)
    /\ inflight = [s \in Slots |-> IdleSlot]

(***************************************************************************)
(* GET /, app.py:114-116.                                                  *)
(***************************************************************************)
root ==
    /\ before' = Rosters(activities)
    /\ request' = Request("root", None, "", "", NoCredentials)
    /\ response' = [status_code |-> 307, content |-> [url |-> "/static/index.html"],
                    set_cookie |-> None]
    /\ UNCHANGED <<sessions, teachers, activities, drawn, loggedOut, inflight>>

(***************************************************************************)
(* POST /login, app.py:119-132.                                            *)
(***************************************************************************)
\* a scan that matches the username and the password against any entry each
authenticateFieldsApart(credentials) ==
    /\ \E i \in 1..Len(teachers) : teachers[i].username = credentials.username
    /\ \E i \in 1..Len(teachers) : teachers[i].password = credentials.password

\* the loop of login reaches its `return` for these credentials
authenticate(credentials) ==
    \E i \in 1..Len(teachers) :
        /\ teachers[i].username = credentials.username
        /\ teachers[i].password = credentials.password

\* a login that replaces the older sessions of the same user
SessionsWithSingle(session_token, username) ==
    [t \in {u \in DOMAIN sessions : sessions[u] # username} \cup {session_token} |->
        IF t = session_token THEN username ELSE sessions[t]]

\* sessions[session_token] = username
SessionsWith(session_token, username) ==
    [t \in DOMAIN sessions \cup {session_token} |->
        IF t = session_token THEN username ELSE sessions[t]]

\* secrets.token_urlsafe(32): the next draw
token_urlsafe == drawn + 1

login(credentials) ==
    /\ before' = Rosters(activities)
    /\ request' = Request("login", None, "", "", credentials)
    /\ IF authenticate(credentials)
       THEN /\ drawn < MaxLogins
            /\ LET session_token == token_urlsafe
               IN  /\ drawn' = drawn + 1
                   /\ sessions' = SessionsWith(session_token, credentials.username)
                   /\ response' = [status_code |-> 200,
                                   content |-> [message |-> "Login successful",
                                                username |-> credentials.username],
                                   set_cookie |-> Some(session_token)]
       ELSE /\ response' = HTTPException(401, "Invalid credentials")
            /\ UNCHANGED <<sessions, drawn>>
    /\ UNCHANGED <<teachers, activities, loggedOut, inflight>>

(***************************************************************************)
(* POST /logout, app.py:134-142.                                           *)
(***************************************************************************)
\* a logout that leaves the session store alone
SessionsKept(session_token) == sessions

\* a logout that ends every session of the token's user
SessionsWithoutUser(session_token) ==
    [t \in {u \in DOMAIN sessions : sessions[u] # sessions[session_token]} |-> sessions[t]]

\* del sessions[session_token]
SessionsWithout(session_token) ==
    [t \in DOMAIN sessions \ {session_token} |-> sessions[t]]

logout(session_token) ==
    /\ before' = Rosters(activities)
    /\ request' = Request("logout", session_token, "", "", NoCredentials)
    /\ sessions' = IF TruthyToken(session_token) /\ session_token[1] \in DOMAIN sessions
                   THEN SessionsWithout(session_token[1])
                   ELSE sessions
    /\ response' = OK([message |-> "Logged out successfully"])
    /\ loggedOut' = IF session_token # None /\ session_token[1] \in 1..drawn
                    THEN loggedOut \cup {session_token[1]}
                    ELSE loggedOut
    /\ UNCHANGED <<teachers, activities, drawn, inflight>>

(***************************************************************************)
(* GET /auth/status, app.py:144-149.                                       *)
(***************************************************************************)
auth_status(session_token) ==
    /\ before' = Rosters(activities)
    /\ request' = Request("auth_status", session_token, "", "", NoCredentials)
    /\ LET user == get_current_user(session_token)
       IN  response' = IF Truthy(user)
                       THEN OK([authenticated |-> TRUE, username |-> user[1]])
                       ELSE OK([authenticated |-> FALSE])
    /\ UNCHANGED <<sessions, teachers, activities, drawn, loggedOut, inflight>>

(***************************************************************************)
(* GET /activities, app.py:151-153.                                        *)
(***************************************************************************)
get_activities ==
    /\ before' = Rosters(activities)
    /\ request' = Request("get_activities", None, "", "", NoCredentials)
    /\ response' = OK(activities)
    /\ UNCHANGED <<sessions, teachers, activities, drawn, loggedOut, inflight>>

(***************************************************************************)
(* POST /activities/{activity_name}/signup, app.py:156-175.                *)
(***************************************************************************)
\* activity["participants"] = participants
WithParticipants(activity_name, participants) ==
    [activities EXCEPT ![activity_name].participants = participants]

\* a signup without the duplicate check
SignupOutcomeNoDuplicateCheck(session_token, activity_name, email) ==
    IF ~require_auth(session_token) THEN "unauthenticated"
    ELSE IF activity_name \notin DOMAIN activities THEN "not_found"
    ELSE "ok"

\* a signup that looks the activity up before it authenticates
SignupOutcomeNotFoundFirst(session_token, activity_name, email) ==
    IF activity_name \notin DOMAIN activities THEN "not_found"
    ELSE IF ~require_auth(session_token) THEN "unauthenticated"
    ELSE IF In(email, activities[activity_name].participants) THEN "already"
    ELSE "ok"

\* a signup that checks for the duplicate against the first entry only
SignupOutcomeFirstEntryOnly(session_token, activity_name, email) ==
    IF ~require_auth(session_token) THEN "unauthenticated"
    ELSE IF activity_name \notin DOMAIN activities THEN "not_found"
    ELSE IF /\ Len(activities[activity_name].participants) > 0
            /\ activities[activity_name].participants[1] = email THEN "already"
    ELSE "ok"

\* a signup that rejects with 400 when the roster has reached max_participants
SignupOutcomeWithCapacity(session_token, activity_name, email) ==
    IF ~require_auth(session_token) THEN "unauthenticated"
    ELSE IF activity_name \notin DOMAIN activities THEN "not_found"
    ELSE IF In(email, activities[activity_name].participants) THEN "already"
    ELSE IF Len(activities[activity_name].participants) >=
               activities[activity_name].max_participants THEN "already"
    ELSE "ok"

\* the checks of the handler, in the order the code makes them
SignupOutcome(session_token, activity_name, email) ==
    IF ~require_auth(session_token) THEN "unauthenticated"
    ELSE IF activity_name \notin DOMAIN activities THEN "not_found"
    ELSE IF In(email, activities[activity_name].participants) THEN "already"
    ELSE "ok"

\* a signup that creates the activity it does not find
signup_creates_activity(session_token, activity_name, email) ==
    /\ before' = Rosters(activities)
    /\ request' = Request("signup", session_token, activity_name, email, NoCredentials)
    /\ LET outcome == SignupOutcome(session_token, activity_name, email)
       IN  CASE outcome = "unauthenticated" ->
                  /\ response' = HTTPException(401, "Authentication required")
                  /\ UNCHANGED activities
             [] outcome = "not_found" ->
                  /\ activities' = [n \in DOMAIN activities \cup {activity_name} |->
                                       IF n = activity_name
                                       THEN Activity("", "", 0, <<email>>)
                                       ELSE activities[n]]
                  /\ response' = OK([message |-> <<"Signed up", email, "for", activity_name>>])
             [] outcome = "already" ->
                  /\ response' = HTTPException(400, "Student is already signed up")
                  /\ UNCHANGED activities
             [] outcome = "ok" ->
                  /\ activities' = WithParticipants(activity_name,
                         ListAppend(activities[activity_name].participants, email))
                  /\ response' = OK([message |-> <<"Signed up", email, "for", activity_name>>])
    /\ UNCHANGED <<sessions, teachers, drawn, loggedOut, inflight>>

\* a signup that appends first and rejects the duplicate afterwards
signup_append_first(session_token, activity_name, email) ==
    /\ before' = Rosters(activities)
    /\ request' = Request("signup", session_token, activity_name, email, NoCredentials)
    /\ LET outcome == SignupOutcome(session_token, activity_name, email)
       IN  CASE outcome = "unauthenticated" ->
                  /\ response' = HTTPException(401, "Authentication required")
                  /\ UNCHANGED activities
             [] outcome = "not_found" ->
                  /\ response' = HTTPException(404, "Activity not found")
                  /\ UNCHANGED activities
             [] outcome = "already" ->
                  /\ activities' = WithParticipants(activity_name,
                         ListAppend(activities[activity_name].participants, email))
                  /\ response' = HTTPException(400, "Student is already signed up")
             [] outcome = "ok" ->
                  /\ activities' = WithParticipants(activity_name,
                         ListAppend(activities[activity_name].participants, email))
                  /\ response' = OK([message |-> <<"Signed up", email, "for", activity_name>>])
    /\ UNCHANGED <<sessions, teachers, drawn, loggedOut, inflight>>

signup_for_activity(session_token, activity_name, email) ==
    /\ before' = Rosters(activities)
    /\ request' = Request("signup", session_token, activity_name, email, NoCredentials)
    /\ LET outcome == SignupOutcome(session_token, activity_name, email)
       IN  CASE outcome = "unauthenticated" ->
                  /\ response' = HTTPException(401, "Authentication required")
                  /\ UNCHANGED activities
             [] outcome = "not_found" ->
                  /\ response' = HTTPException(404, "Activity not found")
                  /\ UNCHANGED activities
             [] outcome = "already" ->
                  /\ response' = HTTPException(400, "Student is already signed up")
                  /\ UNCHANGED activities
             [] outcome = "ok" ->
                  /\ activities' = WithParticipants(activity_name,
                         ListAppend(activities[activity_name].participants, email))
                  /\ response' = OK([message |-> <<"Signed up", email, "for", activity_name>>])
    /\ UNCHANGED <<sessions, teachers, drawn, loggedOut, inflight>>

(***************************************************************************)
(* DELETE /activities/{activity_name}/unregister, app.py:178-197.          *)
(***************************************************************************)
UnregisterOutcome(session_token, activity_name, email) ==
    IF ~require_auth(session_token) THEN "unauthenticated"
    ELSE IF activity_name \notin DOMAIN activities THEN "not_found"
    ELSE IF ~In(email, activities[activity_name].participants) THEN "not_registered"
    ELSE "ok"

unregister_from_activity(session_token, activity_name, email) ==
    /\ before' = Rosters(activities)
    /\ request' = Request("unregister", session_token, activity_name, email, NoCredentials)
    /\ LET outcome == UnregisterOutcome(session_token, activity_name, email)
       IN  CASE outcome = "unauthenticated" ->
                  /\ response' = HTTPException(401, "Authentication required")
                  /\ UNCHANGED activities
             [] outcome = "not_found" ->
                  /\ response' = HTTPException(404, "Activity not found")
                  /\ UNCHANGED activities
             [] outcome = "not_registered" ->
                  /\ response' = HTTPException(400, "Student is not signed up for this activity")
                  /\ UNCHANGED activities
             [] outcome = "ok" ->
                  /\ activities' = WithParticipants(activity_name,
                         ListRemove(activities[activity_name].participants, email))
                  /\ response' = OK([message |-> <<"Unregistered", email, "from", activity_name>>])
    /\ UNCHANGED <<sessions, teachers, drawn, loggedOut, inflight>>

(***************************************************************************)
(* The service: any request at any time.                                   *)
(***************************************************************************)
Next ==
    \/ root
    \/ \E credentials \in Credentials : login(credentials)
    \/ \E c \in Cookies(drawn) : logout(c)
    \/ \E c \in Cookies(drawn) : auth_status(c)
    \/ get_activities
    \/ \E c \in Cookies(drawn), n \in ActivityNames, e \in Emails : signup_for_activity(c, n, e)
    \/ \E c \in Cookies(drawn), n \in ActivityNames, e \in Emails : unregister_from_activity(c, n, e)

Spec == Init /\ [][Next]_vars

(***************************************************************************)
(* The service under a rush on one activity: the students of a waiting     *)
(* line are signed up for the Math Club (max_participants 10, two seeded   *)
(* participants) in the order of the line; a student already served may be *)
(* submitted again.                                                        *)
(***************************************************************************)
Applicants ==
    << "s1@mergington.edu", "s2@mergington.edu", "s3@mergington.edu",
       "s4@mergington.edu", "s5@mergington.edu", "s6@mergington.edu",
       "s7@mergington.edu", "s8@mergington.edu", "s9@mergington.edu" >>

\* the applicants that can be submitted now: those already on the roster
\* and the first that is not
Submittable ==
    {i \in 1..Len(Applicants) :
        \A j \in 1..(i - 1) : In(Applicants[j], activities["Math Club"].participants)}

CapacityNext ==
    \/ \E credentials \in Credentials : login(credentials)
    \/ \E c \in Cookies(drawn), i \in Submittable :
          signup_for_activity(c, "Math Club", Applicants[i])

SpecCapacity == Init /\ [][CapacityNext]_vars


(***************************************************************************)
(* The service with roster requests in flight together: the dependency of  *)
(* a request is resolved in one step and its handler body runs in a later  *)
(* one; logins and logouts happen in between.                              *)
(***************************************************************************)
\* require_auth for a new request, app.py:49-53 as the dependency of
\* app.py:157 and app.py:179
resolve_dependencies(s, op, session_token, activity_name, email) ==
    /\ inflight[s].pc = "idle"
    /\ \A t \in Slots : t < s => inflight[t].pc # "idle"
    /\ inflight' = [inflight EXCEPT ![s] =
          [pc |-> IF require_auth(session_token) THEN "admitted" ELSE "answered",
           op |-> op, user |-> get_current_user(session_token),
           activity_name |-> activity_name, email |-> email,
           response |-> IF require_auth(session_token) THEN None
                        ELSE Some(HTTPException(401, "Authentication required")),
           overlap |-> {}]]
    /\ UNCHANGED <<sessions, teachers, activities, drawn, request, response, loggedOut,
                   before>>

\* a signup body without the duplicate check
SignupBodyNoDuplicateCheck(activity_name, email) ==
    IF activity_name \notin DOMAIN activities THEN "not_found"
    ELSE "ok"

\* the checks of the body of signup_for_activity, app.py:160-171
SignupBody(activity_name, email) ==
    IF activity_name \notin DOMAIN activities THEN "not_found"
    ELSE IF In(email, activities[activity_name].participants) THEN "already"
    ELSE "ok"

\* the checks of the body of unregister_from_activity, app.py:182-193
UnregisterBody(activity_name, email) ==
    IF activity_name \notin DOMAIN activities THEN "not_found"
    ELSE IF ~In(email, activities[activity_name].participants) THEN "not_registered"
    ELSE "ok"

\* the slot s answered with response r
Answered(s, r) ==
    [inflight EXCEPT ![s].pc = "answered", ![s].response = Some(r),
                     ![s].overlap = {t \in Slots \ {s} : inflight[t].pc = "admitted"}]

\* the body of the handler of the request in slot s, run to its return
run_endpoint(s) ==
    /\ inflight[s].pc = "admitted"
    /\ LET activity_name == inflight[s].activity_name
           email == inflight[s].email
           outcome == IF inflight[s].op = "signup"
                      THEN SignupBody(activity_name, email)
                      ELSE UnregisterBody(activity_name, email)
       IN  CASE outcome = "not_found" ->
                  /\ inflight' = Answered(s, HTTPException(404, "Activity not found"))
                  /\ UNCHANGED activities
             [] outcome = "already" ->
                  /\ inflight' = Answered(s, HTTPException(400, "Student is already signed up"))
                  /\ UNCHANGED activities
             [] outcome = "not_registered" ->
                  /\ inflight' = Answered(s,
                         HTTPException(400, "Student is not signed up for this activity"))
                  /\ UNCHANGED activities
             [] outcome = "ok" /\ inflight[s].op = "signup" ->
                  /\ activities' = WithParticipants(activity_name,
                         ListAppend(activities[activity_name].participants, email))
                  /\ inflight' = Answered(s,
                         OK([message |-> <<"Signed up", email, "for", activity_name>>]))
             [] outcome = "ok" /\ inflight[s].op = "unregister" ->
                  /\ activities' = WithParticipants(activity_name,
                         ListRemove(activities[activity_name].participants, email))
                  /\ inflight' = Answered(s,
                         OK([message |-> <<"Unregistered", email, "from", activity_name>>]))
    /\ UNCHANGED <<sessions, teachers, drawn, request, response, loggedOut, before>>

\* the activity_name of the concurrent requests: they contend for one roster
ConcurrentNames == {"Chess Club"}

\* the teachers of the directory log in, and log out of sessions they were
\* issued, while the roster requests are in flight
ConcurrentNext ==
    \/ \E i \in 1..Len(teachers) : login(teachers[i])
    \/ \E t \in 1..drawn : logout(Some(t))
    \/ \E s \in Slots, op \in {"signup", "unregister"}, c \in Cookies(drawn),
          n \in ConcurrentNames, e \in Emails : resolve_dependencies(s, op, c, n, e)
    \/ \E s \in Slots : run_endpoint(s)

SpecConcurrent == Init /\ [][ConcurrentNext]_vars

(***************************************************************************)
(* Vocabulary of the properties.                                           *)
(***************************************************************************)
\* the elements of a list
ToSet(lst) == {lst[i] : i \in 1..Len(lst)}

\* no element occurs twice in the list
NoDuplicates(lst) == \A i, j \in 1..Len(lst) : i # j => lst[i] # lst[j]

\* the cookie value c is a key of the session store s
TokenIsKey(c, s) == c # None /\ c[1] \in DOMAIN s

\* the list with position i taken out, the rest in order
WithoutPosition(lst, i) ==
    [j \in 1..(Len(lst) - 1) |-> IF j < i THEN lst[j] ELSE lst[j + 1]]

RosterOps == {"signup", "unregister"}
ErrorCodes == {400, 401, 404}

(***************************************************************************)
(* C1: in every reachable state the participants list of every activity    *)
(* contains no email more than once.                                       *)
(***************************************************************************)
C1_NoDuplicateParticipants ==
    \A n \in DOMAIN activities : NoDuplicates(activities[n].participants)

\* a signup of an email already on a grown roster was served and rejected
C1_Witness ==
    /\ request.op = "signup"
    /\ response.status_code = 400
    /\ request.activity_name = "Chess Club"
    /\ Len(activities["Chess Club"].participants) = 3

(***************************************************************************)
(* C2: a signup or unregister request whose session token is absent or is  *)
(* not a key of the session store is answered 401 "Authentication          *)
(* required", whatever the activity name (known or unknown) and the email. *)
(***************************************************************************)
C2_UnauthenticatedFirst ==
    [][ (/\ request'.op \in RosterOps
         /\ ~TokenIsKey(request'.session_token, sessions))
        => response' = HTTPException(401, "Authentication required") ]_vars

\* a signup for an unknown activity carrying a forged token was answered 401
C2_Witness ==
    /\ request.op = "signup"
    /\ request.session_token \in {Some(t) : t \in ForgedTokens}
    /\ request.activity_name \notin DOMAIN activities
    /\ response.status_code = 401

(***************************************************************************)
(* C3: once a logout request has carried token t, every later signup or    *)
(* unregister request carrying t is answered 401, every later /auth/status *)
(* request carrying t reports authenticated false, and t is not a key of   *)
(* the session store, whatever happened in between.                        *)
(***************************************************************************)
C3_LogoutInvalidates ==
    /\ \A t \in loggedOut : t \notin DOMAIN sessions
    /\ (/\ request.op \in RosterOps
        /\ request.session_token # None
        /\ request.session_token[1] \in loggedOut)
       => response = HTTPException(401, "Authentication required")
    /\ (/\ request.op = "auth_status"
        /\ request.session_token # None
        /\ request.session_token[1] \in loggedOut)
       => response = OK([authenticated |-> FALSE])

\* token 1 was logged out, the same user logged in again (token 2), and a
\* signup carrying token 1 was then answered 401
C3_Witness ==
    /\ 1 \in loggedOut
    /\ 2 \in DOMAIN sessions
    /\ sessions[2] = "mrs.garcia"
    /\ request.op = "signup"
    /\ request.session_token = Some(1)
    /\ response.status_code = 401

(***************************************************************************)
(* C4: a login whose username and password equal one entry of the          *)
(* credential directory is answered 200 and stores a fresh token mapped to *)
(* that username, and an /auth/status request that follows it carrying     *)
(* that token reports authenticated true with the same username.           *)
(***************************************************************************)
C4_LoginThenStatus ==
    [][ /\ (/\ request'.op = "login"
            /\ \E i \in 1..Len(teachers) : teachers[i] = request'.credentials)
           => /\ response'.status_code = 200
              /\ response'.set_cookie # None
              /\ response'.set_cookie[1] \notin DOMAIN sessions
              /\ DOMAIN sessions' = DOMAIN sessions \cup {response'.set_cookie[1]}
              /\ sessions'[response'.set_cookie[1]] = request'.credentials.username
              /\ \A t \in DOMAIN sessions : sessions'[t] = sessions[t]
        /\ (/\ request.op = "login"
            /\ response.status_code = 200
            /\ request'.op = "auth_status"
            /\ request'.session_token = response.set_cookie)
           => response' = OK([authenticated |-> TRUE,
                              username |-> request.credentials.username]) ]_vars

(***************************************************************************)
(* C5: a login with an unknown username, or with a known username and a    *)
(* password that is not the password of an entry of that username, is      *)
(* answered 401 "Invalid credentials", sets no cookie and leaves the       *)
(* session store unchanged; the password of another user's entry does not  *)
(* authenticate.                                                           *)
(***************************************************************************)
UnknownUsername(c) == \A i \in 1..Len(teachers) : teachers[i].username # c.username

WrongPassword(c) ==
    /\ \E i \in 1..Len(teachers) : teachers[i].username = c.username
    /\ \A i \in 1..Len(teachers) :
          teachers[i].username = c.username => teachers[i].password # c.password

C5_InvalidCredentials ==
    [][ (/\ request'.op = "login"
         /\ UnknownUsername(request'.credentials) \/ WrongPassword(request'.credentials))
        => /\ response' = HTTPException(401, "Invalid credentials")
           /\ response'.set_cookie = None
           /\ sessions' = sessions ]_vars

\* a login of a known user with the password of another user's entry was
\* answered 401
C5_Witness ==
    /\ request.op = "login"
    /\ request.credentials = Teacher("mrs.garcia", "pw-b")
    /\ \E i \in 1..Len(teachers) : teachers[i] = Teacher("", "pw-b")
    /\ response.status_code = 401
    /\ response.set_cookie = None

(***************************************************************************)
(* C6: for a caller that passes the authentication gate, an existing       *)
(* activity and an email not on its roster, the signup is answered 200,    *)
(* and a signup of the same email for the same activity that follows it is *)
(* answered 400 "Student is already signed up" and leaves the roster as    *)
(* the first signup left it.                                               *)
(***************************************************************************)
C6_SecondSignupRejected ==
    [][ /\ (/\ request'.op = "signup"
            /\ require_auth(request'.session_token)
            /\ request'.activity_name \in DOMAIN activities
            /\ request'.email \notin ToSet(activities[request'.activity_name].participants))
           => response'.status_code = 200
        /\ (/\ request.op = "signup"
            /\ response.status_code = 200
            /\ request'.op = "signup"
            /\ request'.activity_name = request.activity_name
            /\ request'.email = request.email
            /\ require_auth(request'.session_token))
           => /\ response' = HTTPException(400, "Student is already signed up")
              /\ activities' = activities ]_vars

\* the second signup of the new student, whose email the first had put at
\* the end of the roster, was answered 400
C6_Witness ==
    /\ request.op = "signup"
    /\ request.activity_name = "Programming Class"
    /\ request.email = "new@mergington.edu"
    /\ response.status_code = 400
    /\ activities["Programming Class"].participants =
          <<"emma@mergington.edu", "sophia@mergington.edu", "new@mergington.edu">>
    /\ before = Rosters(activities)

(***************************************************************************)
(* C7: for a caller that passes the authentication gate and an email on an *)
(* activity's roster, the unregister is answered 200, and a signup of the  *)
(* same email for the same activity that follows it is answered 200 and    *)
(* puts the email back: the set of participants afterwards equals the set  *)
(* before the unregister.                                                  *)
(***************************************************************************)
C7_UnregisterThenSignupRestores ==
    [][ /\ (/\ request'.op = "unregister"
            /\ require_auth(request'.session_token)
            /\ request'.activity_name \in DOMAIN activities
            /\ request'.email \in ToSet(activities[request'.activity_name].participants))
           => response'.status_code = 200
        /\ (/\ request.op = "unregister"
            /\ response.status_code = 200
            /\ request'.op = "signup"
            /\ request'.activity_name = request.activity_name
            /\ request'.email = request.email
            /\ require_auth(request'.session_token))
           => /\ response'.status_code = 200
              /\ request.email \in ToSet(activities'[request.activity_name].participants)
              /\ ToSet(activities'[request.activity_name].participants) =
                    ToSet(before[request.activity_name]) ]_vars

\* michael, seeded first on the Chess Club roster, was unregistered and
\* signed up again: the signup was answered 200 and he is on the roster
\* again, now after daniel
C7_Witness ==
    /\ request.op = "signup"
    /\ request.activity_name = "Chess Club"
    /\ request.email = "michael@mergington.edu"
    /\ response.status_code = 200
    /\ before["Chess Club"] = <<"daniel@mergington.edu">>
    /\ activities["Chess Club"].participants =
          <<"daniel@mergington.edu", "michael@mergington.edu">>

(***************************************************************************)
(* C8: a request answered with an error (400, 401, 404) leaves the session *)
(* store and the whole activity catalog as they were; an unregister of an  *)
(* email that is not on the roster is answered 400 "Student is not signed  *)
(* up for this activity" and leaves the roster alone.                      *)
(***************************************************************************)
C8_ErrorsChangeNothing ==
    [][ /\ response'.status_code \in ErrorCodes
           => /\ sessions' = sessions
              /\ activities' = activities
        /\ (/\ request'.op = "unregister"
            /\ require_auth(request'.session_token)
            /\ request'.activity_name \in DOMAIN activities
            /\ request'.email \notin ToSet(activities[request'.activity_name].participants))
           => /\ response' = HTTPException(400, "Student is not signed up for this activity")
              /\ activities' = activities ]_vars

\* an unregister of the new student, who is not on the Chess Club roster,
\* was answered 400 while a session was open
C8_Witness ==
    /\ request.op = "unregister"
    /\ request.activity_name = "Chess Club"
    /\ request.email = "new@mergington.edu"
    /\ response.status_code = 400
    /\ "new@mergington.edu" \notin ToSet(activities["Chess Club"].participants)
    /\ DOMAIN sessions # {}

(***************************************************************************)
(* C9: a signup answered 200 changes the target activity's roster to the   *)
(* previous roster followed by the new email as last element, and leaves   *)
(* every other activity, and the other fields of the target, unchanged.    *)
(***************************************************************************)
C9_SignupAppends ==
    [][ (/\ request'.op = "signup"
         /\ response'.status_code = 200)
        => /\ request'.activity_name \in DOMAIN activities
           /\ DOMAIN activities' = DOMAIN activities
           /\ activities'[request'.activity_name] =
                 [activities[request'.activity_name] EXCEPT
                     !.participants = @ \o <<request'.email>>]
           /\ \A n \in DOMAIN activities \ {request'.activity_name} :
                 activities'[n] = activities[n] ]_vars

\* the example of the specification: new@mergington.edu signed up for the
\* seeded Chess Club, with another roster already changed
C9_Witness ==
    /\ request.op = "signup"
    /\ response.status_code = 200
    /\ request.activity_name = "Chess Club"
    /\ activities["Chess Club"].participants =
          <<"michael@mergington.edu", "daniel@mergington.edu", "new@mergington.edu">>
    /\ activities["Programming Class"].participants # SeedActivities["Programming Class"].participants

(***************************************************************************)
(* C10: an unregister answered 200 changes the target activity's roster to *)
(* the previous roster with the email taken out: the email no longer       *)
(* occurs, the length shrinks by one, the remaining entries keep their     *)
(* order, and every other activity is unchanged.                           *)
(***************************************************************************)
C10_UnregisterRemoves ==
    [][ (/\ request'.op = "unregister"
         /\ response'.status_code = 200)
        => LET old == activities[request'.activity_name].participants
               new == activities'[request'.activity_name].participants
           IN  /\ DOMAIN activities' = DOMAIN activities
               /\ request'.email \notin ToSet(new)
               /\ Len(new) = Len(old) - 1
               /\ \E i \in 1..Len(old) :
                     old[i] = request'.email /\ new = WithoutPosition(old, i)
               /\ \A n \in DOMAIN activities \ {request'.activity_name} :
                     activities'[n] = activities[n] ]_vars

\* the example of the specification: michael unregistered from the Chess
\* Club roster that new@mergington.edu had joined
C10_Witness ==
    /\ request.op = "unregister"
    /\ response.status_code = 200
    /\ request.email = "michael@mergington.edu"
    /\ before["Chess Club"] =
          <<"michael@mergington.edu", "daniel@mergington.edu", "new@mergington.edu">>
    /\ activities["Chess Club"].participants =
          <<"daniel@mergington.edu", "new@mergington.edu">>

(***************************************************************************)
(* C11: in every reachable state the catalog has the activity names of the *)
(* seed catalog and every activity has its seeded description, schedule    *)
(* and max_participants; a signup or unregister naming an unknown activity *)
(* by a caller that passes the authentication gate is answered 404         *)
(* "Activity not found" and changes no roster.                             *)
(***************************************************************************)
C11_StaticCatalog ==
    /\ DOMAIN activities = SeedNames
    /\ \A n \in SeedNames :
          /\ activities[n].description = SeedActivities[n].description
          /\ activities[n].schedule = SeedActivities[n].schedule
          /\ activities[n].max_participants = SeedActivities[n].max_participants
    /\ (/\ request.op \in RosterOps
        /\ request.activity_name \notin SeedNames
        /\ require_auth(request.session_token))
       => /\ response = HTTPException(404, "Activity not found")
          /\ Rosters(activities) = before

\* a signup for the unknown Robotics Club by a logged-in teacher was
\* answered 404, after a roster had changed
C11_Witness ==
    /\ request.op = "signup"
    /\ request.activity_name = "Robotics Club"
    /\ require_auth(request.session_token)
    /\ response.status_code = 404
    /\ Rosters(activities) # Rosters(SeedActivities)

(***************************************************************************)
(* C13: for every token that is a key of the session store, whatever the   *)
(* stored username (the empty string included), a signup or unregister     *)
(* passes the authentication gate and /auth/status reports authenticated   *)
(* true with the stored username; the gate answers 401, and /auth/status   *)
(* reports authenticated false, only when the token is absent from the     *)
(* store or not supplied.                                                  *)
(***************************************************************************)
C13_EveryStoredTokenAuthenticates ==
    [][ /\ request'.op \in RosterOps
           => (response'.status_code = 401
                 <=> ~TokenIsKey(request'.session_token, sessions))
        /\ request'.op = "auth_status"
           => response' =
                 IF TokenIsKey(request'.session_token, sessions)
                 THEN OK([authenticated |-> TRUE,
                          username |-> sessions[request'.session_token[1]]])
                 ELSE OK([authenticated |-> FALSE]) ]_vars

(***************************************************************************)
(* C15: a session in the store stays there, mapped to the same username,   *)
(* through every request except a logout carrying exactly its token; a     *)
(* logout is always answered 200, removes the entry of its token and no    *)
(* other, and leaves the store unchanged when it carries no token or a     *)
(* token that is not a key.                                                *)
(***************************************************************************)
C15_NoEviction ==
    [][ /\ \A t \in DOMAIN sessions :
              ~(request'.op = "logout" /\ request'.session_token = Some(t))
              => (t \in DOMAIN sessions' /\ sessions'[t] = sessions[t])
        /\ request'.op = "logout"
           => /\ response' = OK([message |-> "Logged out successfully"])
              /\ IF TokenIsKey(request'.session_token, sessions)
                 THEN DOMAIN sessions' = DOMAIN sessions \ {request'.session_token[1]}
                 ELSE sessions' = sessions ]_vars

\* with one teacher in the directory, hence two sessions of the same user:
\* token 2 was logged out and the session of token 1 is still in the store
C15_Witness ==
    /\ Len(teachers) = 1
    /\ request.op = "logout"
    /\ request.session_token = Some(2)
    /\ 2 \in loggedOut
    /\ 2 \notin DOMAIN sessions
    /\ 1 \in DOMAIN sessions
    /\ sessions[1] = "mrs.garcia"

(***************************************************************************)
(* C16: a login answered 200 adds one entry under a token that was not a   *)
(* key and keeps every existing entry; a logout keeps every entry but its  *)
(* own, and a session of a named user that it leaves is reported           *)
(* authenticated by the /auth/status that follows; every token in the      *)
(* store was drawn by a login and maps to a username of the credential     *)
(* directory.                                                              *)
(***************************************************************************)
C16_DistinctSessions ==
    [][ /\ (request'.op = "login" /\ response'.status_code = 200)
           => /\ response'.set_cookie # None
              /\ response'.set_cookie[1] \notin DOMAIN sessions
              /\ DOMAIN sessions' = DOMAIN sessions \cup {response'.set_cookie[1]}
              /\ Cardinality(DOMAIN sessions') = Cardinality(DOMAIN sessions) + 1
              /\ \A t \in DOMAIN sessions : sessions'[t] = sessions[t]
        /\ request'.op = "logout"
           => \A t \in DOMAIN sessions :
                 request'.session_token # Some(t)
                 => (t \in DOMAIN sessions' /\ sessions'[t] = sessions[t])
        /\ (/\ request.op = "logout"
            /\ request'.op = "auth_status"
            /\ TokenIsKey(request'.session_token, sessions)
            /\ sessions[request'.session_token[1]] # "")
           => response' = OK([authenticated |-> TRUE,
                              username |-> sessions[request'.session_token[1]]])
        /\ \A t \in DOMAIN sessions' :
              /\ t \in 1..drawn'
              /\ \E i \in 1..Len(teachers') : teachers'[i].username = sessions'[t] ]_vars

\* a second login of mrs.garcia was answered with token 2 while her session
\* of token 1 is in the store
C16_Witness ==
    /\ request.op = "login"
    /\ response.status_code = 200
    /\ response.set_cookie = Some(2)
    /\ DOMAIN sessions = {1, 2}
    /\ sessions[1] = "mrs.garcia"
    /\ sessions[2] = "mrs.garcia"

(***************************************************************************)
(* C14: a signup by a caller that passes the authentication gate, for an   *)
(* existing activity and an email not on its roster, is answered 200 and   *)
(* lengthens the roster by one whatever the roster's length, at or beyond  *)
(* max_participants included; a roster longer than max_participants is     *)
(* reachable.                                                              *)
(***************************************************************************)
C14_NoCapacityCheck ==
    [][ (/\ request'.op = "signup"
         /\ require_auth(request'.session_token)
         /\ request'.activity_name \in DOMAIN activities
         /\ request'.email \notin ToSet(activities[request'.activity_name].participants))
        => /\ response'.status_code = 200
           /\ Len(activities'[request'.activity_name].participants) =
                 Len(activities[request'.activity_name].participants) + 1
           /\ activities'[request'.activity_name].max_participants =
                 activities[request'.activity_name].max_participants ]_vars

\* a signup for the Math Club was answered 200 and left its roster longer
\* than its max_participants
C14_Witness ==
    /\ request.op = "signup"
    /\ request.activity_name = "Math Club"
    /\ response.status_code = 200
    /\ Len(activities["Math Club"].participants) > activities["Math Club"].max_participants

(***************************************************************************)
(* C12.  The slots s and t held signups for the same email and the same    *)
(* activity, t was in flight (its dependency resolved, its body not yet    *)
(* run) when the body of s ran, and both are answered.                     *)
(***************************************************************************)
OverlappingSignups(s, t) ==
    /\ s # t
    /\ inflight[s].pc = "answered" /\ inflight[t].pc = "answered"
    /\ inflight[s].op = "signup" /\ inflight[t].op = "signup"
    /\ inflight[s].activity_name = inflight[t].activity_name
    /\ inflight[s].email = inflight[t].email
    /\ t \in inflight[s].overlap

\* an unregister of the email and activity of slot s was answered 200
UnregisteredMeanwhile(s) ==
    \E u \in Slots :
        /\ inflight[u].pc = "answered"
        /\ inflight[u].op = "unregister"
        /\ inflight[u].activity_name = inflight[s].activity_name
        /\ inflight[u].email = inflight[s].email
        /\ inflight[u].response[1].status_code = 200

\* the number of positions of the list that hold x
Occurrences(lst, x) == Cardinality({i \in 1..Len(lst) : lst[i] = x})

(***************************************************************************)
(* C12, as stated: two signups for the same email and the same activity    *)
(* that are in flight together both pass the duplicate check, so that when *)
(* the first is answered 200 the second is answered 200 too and the roster *)
(* holds the email twice.                                                  *)
(***************************************************************************)
C12_RaceDuplicates ==
    \A s, t \in Slots :
        (OverlappingSignups(s, t) /\ inflight[s].response[1].status_code = 200)
        => /\ inflight[t].response[1].status_code = 200
           /\ Occurrences(activities[inflight[s].activity_name].participants,
                          inflight[s].email) = 2

(***************************************************************************)
(* C12, amended: requests interleave only between the resolution of        *)
(* require_auth and the handler body; the duplicate check and the append   *)
(* of a signup are one step, so no roster ever holds an email twice, and   *)
(* of two signups for the same email and activity in flight together the   *)
(* one whose body runs second is answered 400 unless an unregister of that *)
(* email was answered 200.                                                 *)
(***************************************************************************)
C12_NoRaceDuplicates ==
    /\ \A n \in DOMAIN activities : NoDuplicates(activities[n].participants)
    /\ \A s, t \in Slots :
          (/\ OverlappingSignups(s, t)
           /\ inflight[s].response[1].status_code = 200
           /\ ~UnregisteredMeanwhile(s))
          => /\ inflight[t].response[1] = HTTPException(400, "Student is already signed up")
             /\ Occurrences(activities[inflight[s].activity_name].participants,
                            inflight[s].email) = 1

\* two signups of the new student for the Chess Club were in flight
\* together: the first was answered 200, the second 400, and the roster
\* holds the email once
C12_Witness ==
    /\ OverlappingSignups(1, 2)
    /\ inflight[1].email = "new@mergington.edu"
    /\ inflight[1].activity_name = "Chess Club"
    /\ inflight[1].response[1].status_code = 200
    /\ inflight[2].response[1].status_code = 400
    /\ activities["Chess Club"].participants =
          <<"michael@mergington.edu", "daniel@mergington.edu", "new@mergington.edu">>

=============================================================================
